---------------------------- MODULE Spec2Model ----------------------------
(***************************************************************************)
(* Model of programmierwettbewerb_wer_liefert_am_schnellsten.py: the       *)
(* fetcher _url_content, the Package variants and their update(), the      *)
(* reporter _pprint and the selector main().                               *)
(*                                                                         *)
(* A Python str or bytes value is a "text": a sequence of chunks, each     *)
(* chunk a TLA+ string standing for one character or for a run of          *)
(* characters none of which is special to the operation applied to it.     *)
(* Whitespace, newline, digits of a date and regex metacharacters are      *)
(* always chunks of their own.  Str(t) is the string a text spells.        *)
(***************************************************************************)
EXTENDS Integers, Sequences, FiniteSets, TLC

VARIABLES
    obj,                \* the Package instance of the current constructor/update call
    call,               \* what the most recent call on obj was given and did
    events,             \* trace of the current top-level call (fetches, prints)
    stdout,             \* lines written by print()
    warnings,           \* records written by logging.warning()
    args,               \* the parsed command line (argparse Namespace)
    selected_packages,  \* main(): selected_packages
    pc,                 \* main(): position in the function body
    pkgs,               \* the list literal being built / handed to _pprint
    web,                \* what each host answers during this run
    nupdates            \* update() calls made on obj after its construction

vars == <<obj, call, events, stdout, warnings, args, selected_packages, pc,
          pkgs, web, nupdates>>

-----------------------------------------------------------------------------
(* Bounds of the model.                                                    *)

MaxUpdates == 2     \* later update() calls on one instance
MaxRows    == 2     \* length of the lists handed to _pprint on its own
MaxPicked  == 2     \* software names given with -p

-----------------------------------------------------------------------------
\* F applied to the value of v: v is evaluated once, where it is bound
Let(v, F(_)) == CHOOSE y \in {F(x) : x \in {v}} : TRUE

-----------------------------------------------------------------------------
(* Texts.                                                                  *)

NL == "\n"

RECURSIVE Str(_)
Str(t) == IF t = <<>> THEN "" ELSE Head(t) \o Str(Tail(t))

IsSpace(c) == c \in {" ", NL, "\t"}

IsDigit(c) == c \in {"0", "1", "2", "3", "4", "5", "6", "7", "8", "9"}

RECURSIVE LStrip(_)
LStrip(t) == IF t # <<>> /\ IsSpace(Head(t)) THEN LStrip(Tail(t)) ELSE t

RECURSIVE RStrip(_)
RStrip(t) ==
    IF t # <<>> /\ IsSpace(t[Len(t)]) THEN RStrip(SubSeq(t, 1, Len(t) - 1)) ELSE t

\* str.strip()
Strip(t) == RStrip(LStrip(t))

-----------------------------------------------------------------------------
(* re: the part of Python's regular expressions the program's patterns     *)
(* use.  A pattern source is a text; Compile reads it chunk by chunk the   *)
(* way re.compile reads characters, so a package name pasted into the      *)
(* source by an f-string is read as regex syntax, not as literal text.     *)

Lit(c) == [t |-> "lit", c |-> c]

AnyChar == [t |-> "any", c |-> ""]

DigitChar == [t |-> "digit", c |-> ""]

\* one pattern element against one chunk of the subject
Accepts(e, c) ==
    CASE e.t = "lit"   -> c = e.c
      [] e.t = "any"   -> c # NL          \* '.' without re.DOTALL
      [] e.t = "digit" -> IsDigit(c)
      [] OTHER         -> FALSE

CompileError == [ok |-> FALSE, pat |-> <<>>]

Repeat(e, lo, hi, cap) == [t |-> "rep", of |-> e, lo |-> lo, hi |-> hi, cap |-> cap]

RECURSIVE CompileFrom(_, _, _)
CompileFrom(src, k, acc) ==
    IF k > Len(src) THEN [ok |-> TRUE, pat |-> acc]
    ELSE
      CASE src[k] = "+" ->
             \* a repeat needs a preceding item ("nothing to repeat"); a repeat
             \* of a repeat is "multiple repeat" before Python 3.11 and a
             \* possessive repeat from 3.11 on: no pattern of the model has one
             IF acc = <<>> \/ acc[Len(acc)].t \notin {"lit", "any"}
             THEN CompileError
             ELSE CompileFrom(src, k + 1,
                      Append(SubSeq(acc, 1, Len(acc) - 1),
                             Repeat(acc[Len(acc)], 1, -1, FALSE)))
        [] src[k] = "." -> CompileFrom(src, k + 1, Append(acc, AnyChar))
        [] src[k] = "\\(" -> CompileFrom(src, k + 1, Append(acc, Lit("(")))
        [] src[k] = "\\)" -> CompileFrom(src, k + 1, Append(acc, Lit(")")))
        [] src[k] = "(.*?)" ->
             CompileFrom(src, k + 1, Append(acc, [t |-> "lazy", cap |-> TRUE]))
        [] src[k] = ".*?" ->
             CompileFrom(src, k + 1, Append(acc, [t |-> "lazy", cap |-> FALSE]))
        [] src[k] = "([0-9]{1,2})" ->
             CompileFrom(src, k + 1, Append(acc, Repeat(DigitChar, 1, 2, TRUE)))
        [] src[k] = "([0-9]{4})" ->
             CompileFrom(src, k + 1, Append(acc, Repeat(DigitChar, 4, 4, TRUE)))
        [] OTHER -> CompileFrom(src, k + 1, Append(acc, Lit(src[k])))

\* re.compile
Compile(src) == CompileFrom(src, 1, <<>>)

NoMatch == [ok |-> FALSE, groups |-> <<>>]

\* how many chunks from position i on element e accepts in a row, at most hi
\* (hi < 0: no limit)
RECURSIVE RunLen(_, _, _, _)
RunLen(e, body, i, hi) ==
    IF hi = 0 \/ i > Len(body) \/ ~Accepts(e, body[i]) THEN 0
    ELSE 1 + RunLen(e, body, i + 1, hi - 1)

\* the match r of the rest of the pattern, with the n chunks from i as the
\* group of element e in front when e captures
WithGroup(e, body, i, n, r) ==
    IF e.cap
    THEN [ok |-> TRUE, groups |-> <<SubSeq(body, i, i + n - 1)>> \o r.groups]
    ELSE r

RECURSIVE MatchAt(_, _, _, _)
RECURSIVE Greedy(_, _, _, _, _)
RECURSIVE Lazy(_, _, _, _, _)

\* pattern elements k.. against the subject from position i (backtracking)
MatchAt(pat, k, body, i) ==
    IF k > Len(pat) THEN [ok |-> TRUE, groups |-> <<>>]
    ELSE
      CASE pat[k].t = "rep" ->
             Let(RunLen(pat[k].of, body, i, pat[k].hi),
                 LAMBDA n : Greedy(pat, k, body, i, n))
        [] pat[k].t = "lazy" -> Lazy(pat, k, body, i, 0)
        [] OTHER ->
             IF i <= Len(body) /\ Accepts(pat[k], body[i])
             THEN MatchAt(pat, k + 1, body, i + 1)
             ELSE NoMatch

\* a greedy repeat: the longest run first, then shorter ones
Greedy(pat, k, body, i, n) ==
    IF n < pat[k].lo THEN NoMatch
    ELSE Let(MatchAt(pat, k + 1, body, i + n),
             LAMBDA r : IF r.ok THEN WithGroup(pat[k], body, i, n, r)
                        ELSE Greedy(pat, k, body, i, n - 1))

\* a lazy .*? : the shortest run first, never across a newline
Lazy(pat, k, body, i, n) ==
    IF i + n - 1 > Len(body) \/ (n > 0 /\ body[i + n - 1] = NL) THEN NoMatch
    ELSE Let(MatchAt(pat, k + 1, body, i + n),
             LAMBDA r : IF r.ok THEN WithGroup(pat[k], body, i, n, r)
                        ELSE Lazy(pat, k, body, i, n + 1))

RECURSIVE SearchFrom(_, _, _)
SearchFrom(pat, body, i) ==
    IF i > Len(body) + 1 THEN NoMatch
    ELSE Let(MatchAt(pat, 1, body, i),
             LAMBDA r : IF r.ok THEN r ELSE SearchFrom(pat, body, i + 1))

\* re.search(pattern, subject): the leftmost match; exc is re.error when the
\* pattern does not compile
Search(src, body) ==
    Let(Compile(src),
        LAMBDA p :
          IF ~p.ok THEN [ok |-> FALSE, groups |-> <<>>, exc |-> "re.error"]
          ELSE Let(SearchFrom(p.pat, body, 1),
                   LAMBDA r : [ok |-> r.ok, groups |-> r.groups, exc |-> "none"]))

-----------------------------------------------------------------------------
(* json.loads, for documents made of strings, null and flat objects.       *)

QUOTE == "\""

RECURSIVE SkipSpace(_, _)
SkipSpace(t, i) ==
    IF i <= Len(t) /\ IsSpace(t[i]) THEN SkipSpace(t, i + 1) ELSE i

RECURSIVE StringEnd(_, _)
\* position of the closing quote of a string whose content starts at i; 0: none
StringEnd(t, i) ==
    IF i > Len(t) THEN 0 ELSE IF t[i] = QUOTE THEN i ELSE StringEnd(t, i + 1)

JsonNull == [t |-> "null", v |-> <<>>]

JsonFail == [ok |-> FALSE, val |-> JsonNull, next |-> 0]

\* a string or null starting at i
JsonScalar(t, i) ==
    IF i > Len(t) THEN JsonFail
    ELSE IF t[i] = "null" THEN [ok |-> TRUE, val |-> JsonNull, next |-> i + 1]
    ELSE IF t[i] # QUOTE THEN JsonFail
    ELSE Let(StringEnd(t, i + 1),
             LAMBDA j : IF j = 0 THEN JsonFail
                        ELSE [ok |-> TRUE,
                              val |-> [t |-> "str", v |-> SubSeq(t, i + 1, j - 1)],
                              next |-> j + 1])

RECURSIVE JsonMembers(_, _, _)
\* "key": value (, "key": value)* } from position i; a later key replaces an
\* earlier one
JsonMembers(t, i, acc) ==
    Let(JsonScalar(t, SkipSpace(t, i)), LAMBDA key :
      IF ~key.ok \/ key.val.t # "str" THEN JsonFail
      ELSE Let(SkipSpace(t, key.next), LAMBDA colon :
        IF colon > Len(t) \/ t[colon] # ":" THEN JsonFail
        ELSE Let(JsonScalar(t, SkipSpace(t, colon + 1)), LAMBDA val :
          IF ~val.ok THEN JsonFail
          ELSE Let(SkipSpace(t, val.next), LAMBDA after :
            IF after > Len(t) THEN JsonFail
            ELSE IF t[after] = ","
                 THEN JsonMembers(t, after + 1, (Str(key.val.v) :> val.val) @@ acc)
            ELSE IF t[after] = "}"
                 THEN [ok |-> TRUE,
                       val |-> [t |-> "object",
                                v |-> (Str(key.val.v) :> val.val) @@ acc],
                       next |-> after + 1]
            ELSE JsonFail))))

EmptyObject == [k \in {} |-> 0]

JsonValue(t, i) ==
    IF i > Len(t) \/ t[i] # "{" THEN JsonScalar(t, i)
    ELSE Let(SkipSpace(t, i + 1),
             LAMBDA j : IF j <= Len(t) /\ t[j] = "}"
                        THEN [ok |-> TRUE,
                              val |-> [t |-> "object", v |-> EmptyObject],
                              next |-> j + 1]
                        ELSE JsonMembers(t, j, EmptyObject))

\* json.loads(text): ok is FALSE for json.JSONDecodeError
JsonLoads(t) ==
    Let(JsonValue(t, SkipSpace(t, 1)),
        LAMBDA r : IF r.ok /\ SkipSpace(t, r.next) = Len(t) + 1
                   THEN [ok |-> TRUE, val |-> r.val]
                   ELSE [ok |-> FALSE, val |-> JsonNull])

-----------------------------------------------------------------------------
(* Values shared by the fetcher and the packages.                          *)

\* an attribute that has not been assigned yet
Unset == <<"<unset>">>

\* Python's None where a text is expected
None == <<"<None>">>

\* a byte that is not valid UTF-8
BadByte == "\\xff"

\* bytes.decode(): UnicodeDecodeError on a byte that is not UTF-8
DecodeOk(t) == \A i \in 1..Len(t) : t[i] # BadByte

\* what a call did: the instance afterwards, the exception that left it
\* ("none": it returned), the warnings it logged and its trace
Result(o, exc, warn, ev) == [obj |-> o, exc |-> exc, warn |-> warn, ev |-> ev]

-----------------------------------------------------------------------------
(* _url_content.  resp is how the host answers the GET: kind "ok" with a   *)
(* body, "HTTPError" (an error status), "URLError" (the request could not  *)
(* be sent: no route, no name) or "HTTPException" (http.client fails while *)
(* the response is read: RemoteDisconnected, IncompleteRead).              *)
(* request.urlopen raises http.client.InvalidURL, which is no URLError,    *)
(* for a URL holding a blank or a control character, before sending.       *)

UrlHasBlank(url) == \E i \in 1..Len(url) : IsSpace(url[i])

\* what _url_content hands back: the body, or None, or the exception it
\* lets through; the warnings it logged; its trace
Fetched(url, content, none, exc, warn) ==
    [content |-> content, none |-> none, exc |-> exc, warn |-> warn,
     ev |-> <<[e |-> "urlopen", url |-> url],
              [e |-> IF exc = "none" THEN "returned" ELSE "raised", url |-> url,
               none |-> none]>>]

UrlContent(url, resp) ==
    IF UrlHasBlank(url) THEN Fetched(url, <<>>, FALSE, "InvalidURL", <<>>)
    ELSE CASE resp.kind = "ok" -> Fetched(url, resp.body, FALSE, "none", <<>>)
           [] resp.kind = "HTTPError" -> Fetched(url, <<>>, TRUE, "none", <<>>)
           [] resp.kind = "URLError" ->
                Fetched(url, <<>>, TRUE, "none", <<"invalid url: " \o Str(url)>>)
           [] OTHER -> Fetched(url, <<>>, FALSE, "HTTPException", <<>>)

-----------------------------------------------------------------------------
(* The Package classes.  An instance is a record of its attributes and its *)
(* class (cls).                                                            *)

Fresh(cls) ==
    [cls |-> cls, repository |-> Unset, name |-> Unset, distro |-> Unset,
     distro_release |-> Unset, version |-> Unset, last_updated |-> Unset,
     source_package |-> Unset]

\* reading an attribute that was never assigned is an AttributeError
Reads(o, attrs) == \A a \in attrs : o[a] # Unset

\* the first event of every update(): the instance as update() finds it
Entered(o) == <<[e |-> "update", self |-> o]>>

\* a JSON value as the Python object json.loads makes of it
PyValue(v) == IF v.t = "str" THEN v.v ELSE None

ArchUrl(o) ==
    <<"https://archlinux.org/packages/">> \o o.repository \o <<"/x86_64/">>
        \o o.name \o <<"/json/">>

\* the two assignments at the end of PackageArchLinux.update
ArchAssign(o, info, warn, ev) ==
    IF info.t # "object" THEN Result(o, "TypeError", warn, ev)
    ELSE IF "pkgver" \notin DOMAIN info.v THEN Result(o, "KeyError", warn, ev)
    ELSE IF "last_update" \notin DOMAIN info.v
         THEN Result([o EXCEPT !.version = PyValue(info.v["pkgver"])],
                     "KeyError", warn, ev)
    ELSE IF info.v["last_update"].t # "str"
         THEN Result([o EXCEPT !.version = PyValue(info.v["pkgver"])],
                     "AttributeError", warn, ev)
    ELSE Result([o EXCEPT !.version = PyValue(info.v["pkgver"]),
                          !.last_updated = Strip(info.v["last_update"].v)],
                "none", warn, ev)

\* PackageArchLinux.update
ArchUpdate(o, resp) ==
    IF ~Reads(o, {"repository", "name"})
    THEN Result(o, "AttributeError", <<>>, Entered(o))
    ELSE Let(UrlContent(ArchUrl(o), resp), LAMBDA f :
           IF f.exc # "none" THEN Result(o, f.exc, f.warn, Entered(o) \o f.ev)
           ELSE IF f.none THEN Result(o, "none", f.warn, Entered(o) \o f.ev)
           ELSE Let(JsonLoads(f.content), LAMBDA package_info :
                  IF ~package_info.ok
                  THEN Result(o, "JSONDecodeError", f.warn, Entered(o) \o f.ev)
                  ELSE ArchAssign(o, package_info.val, f.warn, Entered(o) \o f.ev)))

DebianUrl(o) ==
    <<"https://packages.debian.org/source/">> \o o.repository \o <<"/">> \o o.name

\* vp of PackageDebian.update: the name goes in as it is
DebianPattern(o) ==
    <<"<h1>Source Package:", " ">> \o o.name
        \o <<" ", "\\(", "(.*?)", "\\)", NL, "</h1>">>

\* the regex part shared by the three HTML classes: search, and on a match
\* set version to the decoded first group
SetVersion(o, pattern, html, warn, ev) ==
    Let(Search(pattern, html), LAMBDA match :
      IF match.exc # "none" THEN Result(o, match.exc, warn, ev)
      ELSE IF ~match.ok THEN Result(o, "none", warn, ev)
      ELSE IF ~DecodeOk(match.groups[1])
           THEN Result(o, "UnicodeDecodeError", warn, ev)
      ELSE Result([o EXCEPT !.version = match.groups[1]], "none", warn, ev))

\* faulty variant of DebianUpdate: the "if html is None: return" is missing and
\* re.search gets None (TypeError)
DebianUpdateNoNoneCheck(o, resp) ==
    IF ~Reads(o, {"repository", "name"})
    THEN Result(o, "AttributeError", <<>>, Entered(o))
    ELSE Let(UrlContent(DebianUrl(o), resp), LAMBDA f :
           IF f.exc # "none" THEN Result(o, f.exc, f.warn, Entered(o) \o f.ev)
           ELSE IF f.none THEN Result(o, "TypeError", f.warn, Entered(o) \o f.ev)
           ELSE SetVersion(o, DebianPattern(o), f.content, f.warn,
                           Entered(o) \o f.ev))

\* PackageDebian.update
DebianUpdate(o, resp) ==
    IF ~Reads(o, {"repository", "name"})
    THEN Result(o, "AttributeError", <<>>, Entered(o))
    ELSE Let(UrlContent(DebianUrl(o), resp), LAMBDA f :
           IF f.exc # "none" THEN Result(o, f.exc, f.warn, Entered(o) \o f.ev)
           ELSE IF f.none THEN Result(o, "none", f.warn, Entered(o) \o f.ev)
           ELSE SetVersion(o, DebianPattern(o), f.content, f.warn,
                           Entered(o) \o f.ev))

FedoraUrl(o) ==
    <<"https://packages.fedoraproject.org/pkgs/">> \o o.source_package \o <<"/">>
        \o o.name \o <<"/">>

\* vp of PackageFedora.update: the '.' before html is a regex dot
FedoraPattern(o) ==
    <<"<a href=\"fedora-">> \o o.distro_release
        \o <<".", "html\">", "(.*?)", "</a>">>

\* PackageFedora.update
FedoraUpdate(o, resp) ==
    IF ~Reads(o, {"source_package", "name"})
    THEN Result(o, "AttributeError", <<>>, Entered(o))
    ELSE Let(UrlContent(FedoraUrl(o), resp), LAMBDA f :
           IF f.exc # "none" THEN Result(o, f.exc, f.warn, Entered(o) \o f.ev)
           ELSE IF f.none THEN Result(o, "none", f.warn, Entered(o) \o f.ev)
           ELSE IF ~Reads(o, {"distro_release"})
                THEN Result(o, "AttributeError", f.warn, Entered(o) \o f.ev)
           ELSE SetVersion(o, FedoraPattern(o), f.content, f.warn,
                           Entered(o) \o f.ev))

FlatHubUrl(o) == <<"https://beta.flathub.org/apps/details/">> \o o.name

\* vp of PackageFlatPackFlatHub.update
FlatHubVersionPattern ==
    <<"<h3 class=\"my-0\">Changes in version ", "(.*?)", "</h3>">>

\* up of PackageFlatPackFlatHub.update
FlatHubDatePattern ==
    <<"<div class=\"text-sm\" title=\"", "([0-9]{1,2})", "/", "([0-9]{1,2})", "/",
      "([0-9]{4})", "\">", ".*?", "</div>">>

\* year + '-' + month + '-' + day
FlatHubDate(month, day, year) == year \o <<"-">> \o month \o <<"-">> \o day

\* the second search of PackageFlatPackFlatHub.update, after the first left r
SetLastUpdated(r, html) ==
    IF r.exc # "none" THEN r
    ELSE Let(Search(FlatHubDatePattern, html), LAMBDA match :
           IF ~match.ok THEN r
           ELSE IF ~DecodeOk(match.groups[1] \o match.groups[2] \o match.groups[3])
                THEN Result(r.obj, "UnicodeDecodeError", r.warn, r.ev)
           ELSE Result([r.obj EXCEPT !.last_updated =
                            FlatHubDate(match.groups[1], match.groups[2],
                                        match.groups[3])],
                       "none", r.warn, r.ev))

\* PackageFlatPackFlatHub.update
FlatHubUpdate(o, resp) ==
    IF ~Reads(o, {"name"})
    THEN Result(o, "AttributeError", <<>>, Entered(o))
    ELSE Let(UrlContent(FlatHubUrl(o), resp), LAMBDA f :
           IF f.exc # "none" THEN Result(o, f.exc, f.warn, Entered(o) \o f.ev)
           ELSE IF f.none THEN Result(o, "none", f.warn, Entered(o) \o f.ev)
           ELSE Let(SetVersion(o, FlatHubVersionPattern, f.content, f.warn,
                               Entered(o) \o f.ev),
                    LAMBDA r : SetLastUpdated(r, f.content)))

\* self.update(): the method of the instance's class
Update(o, resp) ==
    CASE o.cls = "PackageArchLinux" -> ArchUpdate(o, resp)
      [] o.cls = "PackageDebian"    -> DebianUpdate(o, resp)
      [] o.cls = "PackageFedora"    -> FedoraUpdate(o, resp)
      [] OTHER                      -> FlatHubUpdate(o, resp)

\* Package.__init__: the six assignments, then update()
PackageInit(o, repository, name, distro, distro_release, resp) ==
    Let([o EXCEPT !.repository = repository, !.name = name, !.distro = distro,
                  !.distro_release = distro_release, !.version = <<>>,
                  !.last_updated = <<>>],
        LAMBDA self : Update(self, resp))

\* PackageArchLinux(repository, name)
NewArchLinux(repository, name, resp) ==
    PackageInit(Fresh("PackageArchLinux"), repository, name, <<"ArchLinux">>,
                <<>>, resp)

\* PackageDebian(repository, name)
NewDebian(repository, name, resp) ==
    PackageInit(Fresh("PackageDebian"), repository, name, <<"Debian">>, <<>>, resp)

\* faulty variant of NewFedora: source_package is assigned after
\* Package.__init__ has run, so update() reads it before it exists
NewFedoraSourcePackageLast(repository, name, distro_release, source_package, resp) ==
    Let(PackageInit(Fresh("PackageFedora"), repository, name, <<"Fedora">>,
                    distro_release, resp),
        LAMBDA r : Result([r.obj EXCEPT !.source_package =
                               IF source_package # None THEN source_package
                               ELSE name],
                          r.exc, r.warn, r.ev))

\* PackageFedora(repository, name, distro_release, source_package)
NewFedora(repository, name, distro_release, source_package, resp) ==
    PackageInit([Fresh("PackageFedora") EXCEPT !.source_package =
                     IF source_package # None THEN source_package ELSE name],
                repository, name, <<"Fedora">>, distro_release, resp)

\* PackageFlatPackFlatHub(name)
NewFlatHub(name, resp) ==
    PackageInit(Fresh("PackageFlatPackFlatHub"), <<"flathub">>, name,
                <<"flatpak">>, <<>>, resp)

\* a constructor call by class, with the arguments a
New(cls, a, resp) ==
    CASE cls = "PackageArchLinux" -> NewArchLinux(a.repository, a.name, resp)
      [] cls = "PackageDebian"    -> NewDebian(a.repository, a.name, resp)
      [] cls = "PackageFedora"    ->
           NewFedora(a.repository, a.name, a.distro_release, a.source_package, resp)
      [] OTHER                    -> NewFlatHub(a.name, resp)

-----------------------------------------------------------------------------
(* The inputs the model draws: constructor arguments and host answers.     *)

\* package names: a plain one, one with a regex metacharacter, one with a blank
Names == {<<"firefox">>, <<"g", "t", "k", "+">>, <<"a", " ", "b">>}

PlainNames == {<<"firefox">>, <<"g", "t", "k", "+">>}

Classes == {"PackageArchLinux", "PackageDebian", "PackageFedora",
            "PackageFlatPackFlatHub"}

Arguments(cls) ==
    CASE cls = "PackageArchLinux" ->
           [repository : {<<"extra">>, <<"community-testing">>}, name : Names,
            distro_release : {<<>>}, source_package : {None}]
      [] cls = "PackageDebian" ->
           [repository : {<<"unstable">>}, name : Names,
            distro_release : {<<>>}, source_package : {None}]
      [] cls = "PackageFedora" ->
           [repository : {<<"stable">>}, name : PlainNames,
            distro_release : {<<"37">>, <<"36">>},
            source_package : {None, <<"mesa">>}]
      [] OTHER ->
           [repository : {<<"flathub">>}, name : {<<"org.mozilla.firefox">>},
            distro_release : {<<>>}, source_package : {None}]

\* version texts as the hosts spell them
Versions == {<<"115.0">>, <<"102.1", "-", "2">>}

JsonString(t) == <<QUOTE>> \o t \o <<QUOTE>>

\* the package JSON archlinux.org serves
ArchJson(pkgver, last_update) ==
    <<"{">> \o JsonString(<<"pkgname">>) \o <<":", " ">> \o JsonString(<<"firefox">>)
        \o <<",", " ">> \o JsonString(<<"pkgver">>) \o <<":", " ">> \o JsonString(pkgver)
        \o <<",", " ">> \o JsonString(<<"last_update">>) \o <<":", " ">>
        \o JsonString(last_update) \o <<"}">>

ArchBodies ==
    {ArchJson(v, <<"2024-01-01">>) : v \in Versions}
    \cup {ArchJson(<<"115.0">>, <<" ", "2024-01-01", " ">>),
          ArchJson(<<"115.0">>, <<NL, "2024-01-01T10:00:00Z", "\t">>),
          <<"{", "}">>,
          <<"{">> \o JsonString(<<"pkgver">>) \o <<":">> \o JsonString(<<"115.0">>)
              \o <<"}">>,
          <<"{">> \o JsonString(<<"last_update">>) \o <<":">>
              \o JsonString(<<"2024-01-01">>) \o <<"}">>,
          <<"{">> \o JsonString(<<"pkgver">>) \o <<":">> \o JsonString(<<"115.0">>)
              \o <<",">> \o JsonString(<<"last_update">>) \o <<":", "null", "}">>,
          JsonString(<<"gone">>),
          <<"<html>", "Not Found", "</html>">>}

\* the heading of a Debian source package page as the page has it
DebianHeading(name, version) ==
    <<"<h1>Source Package:", " ">> \o name \o <<" ", "(">> \o version
        \o <<")", NL, "</h1>">>

\* the heading on one line, without a line break before </h1>
DebianHeadingOneLine(name, version) ==
    <<"<h1>Source Package:", " ">> \o name \o <<" ", "(">> \o version
        \o <<")", "</h1>">>

DebianBodies(name) ==
    LET heads == {<<>>, <<"<html>", NL, "<h1>Source Package:", " ", "other", NL>>}
        cores == {DebianHeading(name, v) : v \in Versions}
                 \cup {DebianHeadingOneLine(name, v) : v \in Versions}
                 \cup {DebianHeading(name, <<"1", BadByte>>),
                       <<"<h1>", "Error", "</h1>">>, <<>>}
    IN  {h \o c \o <<NL, "</html>">> : h \in heads, c \in cores}

\* one line of the release table of a Fedora package page
FedoraAnchor(release, version) ==
    <<"<a href=\"fedora-">> \o release \o <<".", "html\">">> \o version \o <<"</a>", NL>>

FedoraBodies(release) ==
    LET other == IF release = <<"37">> THEN <<"36">> ELSE <<"37">> IN
    {FedoraAnchor(release, v) : v \in Versions}
    \cup {FedoraAnchor(other, <<"99">>) \o FedoraAnchor(release, v) : v \in Versions}
    \cup {FedoraAnchor(other, <<"99">>),
          <<"<a href=\"fedora-">> \o release \o <<"x", "html\">", "98", "</a>", NL>>
              \o FedoraAnchor(release, <<"115.0">>),
          FedoraAnchor(release, <<"1", BadByte>>),
          <<"<html>", NL, "</html>">>}

FlatHubVersionBlock(version) ==
    <<"<h3 class=\"my-0\">Changes in version ">> \o version \o <<"</h3>", NL>>

\* the date block of a FlatHub page: month/day/year in the title of a div
FlatHubDateBlock(month, day, year) ==
    <<"<div class=\"text-sm\" title=\"">> \o month \o <<"/">> \o day \o <<"/">>
        \o year \o <<"\">", "2 days ago", "</div>", NL>>

\* a month/day/year title on another element
FlatHubDateSpan(month, day, year) ==
    <<"<span title=\"">> \o month \o <<"/">> \o day \o <<"/">> \o year
        \o <<"\">", "2 days ago", "</span>", NL>>

Dates == {<<<<"3">>, <<"4">>, <<"2", "0", "2", "4">>>>,
          <<<<"1", "2">>, <<"2", "5">>, <<"2", "0", "2", "3">>>>}

FlatHubBodies ==
    LET vparts == {FlatHubVersionBlock(v) : v \in Versions} \cup {<<>>}
        dparts == {FlatHubDateBlock(d[1], d[2], d[3]) : d \in Dates}
                  \cup {FlatHubDateSpan(<<"3">>, <<"4">>, <<"2", "0", "2", "4">>),
                        FlatHubDateBlock(<<"1", "2", "3">>, <<"4">>,
                                         <<"2", "0", "2", "4">>),
                        <<>>}
    IN  {<<"<html>", NL>> \o v \o d : v \in vparts, d \in dparts}
        \cup {FlatHubVersionBlock(<<"1", BadByte>>)}

Bodies(cls, a) ==
    CASE cls = "PackageArchLinux" -> ArchBodies
      [] cls = "PackageDebian"    -> DebianBodies(a.name)
      [] cls = "PackageFedora"    -> FedoraBodies(a.distro_release)
      [] OTHER                    -> FlatHubBodies

\* every way the host can answer the GET of one update()
Responses(cls, a) ==
    {[kind |-> k, body |-> <<>>] : k \in {"HTTPError", "URLError", "HTTPException"}}
    \cup {[kind |-> "ok", body |-> b] : b \in Bodies(cls, a)}

-----------------------------------------------------------------------------
(* One instance: its construction and later update() calls, each with any  *)
(* answer of the host.                                                     *)

NoObject == Fresh("none")

NoCall ==
    [op |-> "none", cls |-> "none", a |-> <<>>, resp |-> <<>>, exc |-> "none",
     warn |-> <<>>]

NoArgs == [packages |-> {}, all |-> FALSE, search |-> None]

InitObject ==
    /\ obj = NoObject
    /\ call = NoCall
    /\ events = <<>>
    /\ stdout = <<>>
    /\ warnings = <<>>
    /\ args = NoArgs
    /\ selected_packages = {}
    /\ pc = [at |-> "none", g |-> 0]
    /\ pkgs = <<>>
    /\ web = <<>>
    /\ nupdates = 0

\* obj = cls(...): a constructor that raises binds no instance
Construct(cls, a, resp) ==
    /\ call.op = "none"
    /\ \E r \in {New(cls, a, resp)} :
       /\ obj' = IF r.exc = "none" THEN r.obj ELSE NoObject
       /\ call' = [op |-> "construct", cls |-> cls, a |-> a, resp |-> resp,
                   exc |-> r.exc, warn |-> r.warn]
       /\ events' = r.ev
       /\ warnings' = warnings \o r.warn
    /\ UNCHANGED <<stdout, args, selected_packages, pc, pkgs, web, nupdates>>

\* obj.update(), called again on the instance; what it assigned before
\* raising stays assigned
CallUpdate(resp) ==
    /\ obj # NoObject
    /\ nupdates < MaxUpdates
    /\ \E r \in {Update(obj, resp)} :
       /\ obj' = r.obj
       /\ call' = [op |-> "update", cls |-> obj.cls, a |-> call.a, resp |-> resp,
                   exc |-> r.exc, warn |-> r.warn]
       /\ events' = r.ev
       /\ warnings' = warnings \o r.warn
    /\ nupdates' = nupdates + 1
    /\ UNCHANGED <<stdout, args, selected_packages, pc, pkgs, web>>

NextObject ==
    \/ \E cls \in Classes : \E a \in Arguments(cls) : \E resp \in Responses(cls, a) :
          Construct(cls, a, resp)
    \/ \E resp \in Responses(obj.cls, call.a) : CallUpdate(resp)

Spec == InitObject /\ [][NextObject]_vars

-----------------------------------------------------------------------------
(* _pprint.  A printed line is a TLA+ string; stdout holds one entry for   *)
(* each print() call.                                                      *)

RECURSIVE Spaces(_)
Spaces(n) == IF n <= 0 THEN "" ELSE " " \o Spaces(n - 1)

RECURSIVE Dashes(_)
Dashes(n) == IF n <= 0 THEN "" ELSE "-" \o Dashes(n - 1)

\* str(x) of an attribute
PyStr(t) == IF t = None THEN "None" ELSE Str(t)

\* faulty variant of Ljust: the value is cut to the column width
LjustCut(str, width) == IF Len(str) > width THEN "" ELSE str \o Spaces(width - Len(str))

\* '{:<width}'.format(str): padded on the right, never cut
Ljust(str, width) == str \o Spaces(width - Len(str))

\* '{:<15}{:<15}{:<15}{:<15}'.format(c1, c2, c3, c4)
Format(c1, c2, c3, c4) == Ljust(c1, 15) \o Ljust(c2, 15) \o Ljust(c3, 15) \o Ljust(c4, 15)

\* the two lines the loop body prints for p
PprintRow(p) ==
    <<Dashes(15 + 15 + 15 + 15),
      Format(PyStr(p.distro) \o " " \o PyStr(p.distro_release),
             PyStr(p.repository), PyStr(p.version), PyStr(p.last_updated))>>

RECURSIVE PprintRows(_)
PprintRows(packages) ==
    IF packages = <<>> THEN <<>>
    ELSE PprintRow(Head(packages)) \o PprintRows(Tail(packages))

\* the lines _pprint(packages) prints
Pprint(packages) ==
    <<Format("distro", "repository", "version", "last updated")>>
        \o PprintRows(packages)

\* the trace of printing lines
RECURSIVE Printed(_)
Printed(lines) ==
    IF lines = <<>> THEN <<>>
    ELSE <<[e |-> "print", text |-> Head(lines)]>> \o Printed(Tail(lines))

-----------------------------------------------------------------------------
(* main().                                                                 *)

SOFTWARE == {"firefox", "thunderbird", "libreoffice", "inkscape", "mesa"}

Member(cls, repository, name, distro_release, source_package) ==
    [cls |-> cls,
     a |-> [repository |-> repository, name |-> name,
            distro_release |-> distro_release, source_package |-> source_package]]

Arch(repository, name) == Member("PackageArchLinux", <<repository>>, name, <<>>, None)

Debian(repository, name) == Member("PackageDebian", <<repository>>, name, <<>>, None)

\* distro_release defaults to "37", source_package to None
Fedora(repository, name) == Member("PackageFedora", <<repository>>, name, <<"37">>, None)

FlatHub(name) == Member("PackageFlatPackFlatHub", <<"flathub">>, name, <<>>, None)

\* the list literal of the g-th if block of main(), g = 1 the search
Members(g, term) ==
    CASE g = 1 ->
           <<Arch("core", term), Arch("extra", term), Arch("community", term),
             Arch("multilib", term), Arch("testing", term),
             Arch("community-testing", term),
             Debian("unstable", term), Debian("testing", term),
             Debian("stable", term),
             Fedora("stable", term),
             Member("PackageFedora", <<"stable">>, term, <<"36">>, None),
             FlatHub(term)>>
      [] g = 2 ->
           <<Arch("extra", <<"firefox">>),
             Debian("unstable", <<"firefox">>), Debian("testing", <<"firefox">>),
             Debian("stable", <<"firefox">>),
             Fedora("stable", <<"firefox">>),
             FlatHub(<<"org.mozilla.firefox">>)>>
      [] g = 3 ->
           <<Arch("extra", <<"thunderbird">>),
             Debian("unstable", <<"thunderbird">>),
             Debian("testing", <<"thunderbird">>),
             Debian("stable", <<"thunderbird">>),
             Fedora("stable", <<"thunderbird">>),
             FlatHub(<<"org.mozilla.Thunderbird">>)>>
      [] g = 4 ->
           <<Arch("extra", <<"libreoffice-fresh">>),
             Arch("extra", <<"libreoffice-still">>),
             Debian("unstable", <<"libreoffice">>),
             Debian("testing", <<"libreoffice">>),
             Debian("stable", <<"libreoffice">>),
             Fedora("stable", <<"libreoffice">>),
             FlatHub(<<"org.libreoffice.LibreOffice">>)>>
      [] g = 5 ->
           <<Arch("extra", <<"inkscape">>),
             Debian("unstable", <<"inkscape">>), Debian("testing", <<"inkscape">>),
             Debian("stable", <<"inkscape">>),
             Fedora("stable", <<"inkscape">>),
             FlatHub(<<"org.inkscape.Inkscape">>)>>
      [] OTHER ->
           <<Arch("extra", <<"mesa">>),
             Debian("unstable", <<"mesa">>), Debian("testing", <<"mesa">>),
             Debian("stable", <<"mesa">>),
             Member("PackageFedora", <<"stable">>, <<"mesa-libGL">>, <<"37">>,
                    <<"mesa">>)>>

\* the software the g-th if block is for (g >= 2)
SoftwareOf(g) ==
    CASE g = 2 -> "firefox"
      [] g = 3 -> "thunderbird"
      [] g = 4 -> "libreoffice"
      [] g = 5 -> "inkscape"
      [] OTHER -> "mesa"

\* what the g-th if block prints before its list (g >= 2)
HeaderOf(g) ==
    CASE g = 2 -> "\nFirefox:"
      [] g = 3 -> "\nThunderbird:"
      [] g = 4 -> "\nLibreOffice:"
      [] g = 5 -> "\nInkscape:"
      [] OTHER -> "\nMesa:"

LastBlock == 6

\* the condition of the g-th if
Selected(g) ==
    IF g = 1 THEN args.search # None ELSE SoftwareOf(g) \in selected_packages

\* the answer of a host to the GET for one member: web says, for each
\* class, whether its host serves the page of the package ("page"), a page
\* without the data ("bare"), an error status or nothing at all
PageOf(m) ==
    CASE m.cls = "PackageArchLinux" ->
           ArchJson(<<"115.0">>, <<" ", "2024-01-01", " ">>)
      [] m.cls = "PackageDebian" ->
           <<"<html>", NL>> \o DebianHeading(m.a.name, <<"115.0">>)
      [] m.cls = "PackageFedora" ->
           FedoraAnchor(<<"35">>, <<"99">>)
               \o FedoraAnchor(m.a.distro_release, <<"102.1", "-", "2">>)
      [] OTHER ->
           FlatHubVersionBlock(<<"115.0">>)
               \o FlatHubDateBlock(<<"3">>, <<"4">>, <<"2", "0", "2", "4">>)

BarePageOf(m) ==
    IF m.cls = "PackageArchLinux" THEN <<"{", "}">> ELSE <<"<html>", NL, "</html>">>

Answer(m) ==
    CASE web[m.cls] = "page" -> [kind |-> "ok", body |-> PageOf(m)]
      [] web[m.cls] = "bare" -> [kind |-> "ok", body |-> BarePageOf(m)]
      [] OTHER -> [kind |-> web[m.cls], body |-> <<>>]

\* what a host can do in a run
Outcomes(cls) ==
    CASE cls = "PackageArchLinux" -> {"page", "bare", "HTTPError"}
      [] cls = "PackageDebian" -> {"page", "bare", "URLError"}
      [] cls = "PackageFedora" -> {"page", "HTTPError"}
      [] OTHER -> {"page", "bare"}

Worlds == {w \in [Classes -> {"page", "bare", "HTTPError", "URLError"}] :
              \A cls \in Classes : w[cls] \in Outcomes(cls)}

SearchTerms == {<<"vim">>}

\* argparse: -p with one or more of SOFTWARE (as a set: main only tests
\* membership), -a, -s with one term; {} and None are "not given"
Namespaces ==
    [packages : {S \in SUBSET SOFTWARE : Cardinality(S) <= MaxPicked},
     all : BOOLEAN,
     search : {None} \cup SearchTerms]

InitMain ==
    /\ obj = NoObject
    /\ call = NoCall
    /\ events = <<>>
    /\ stdout = <<>>
    /\ warnings = <<>>
    /\ args \in Namespaces
    /\ selected_packages = {}
    /\ pc = [at |-> "select", g |-> 0]
    /\ pkgs = <<>>
    /\ web \in Worlds
    /\ nupdates = 0

\* selected_packages = [] and the two ifs that set it
Select ==
    /\ pc.at = "select"
    /\ selected_packages' = IF args.all THEN SOFTWARE
                            ELSE IF args.packages # {} THEN args.packages
                            ELSE {}
    /\ pc' = [at |-> "test", g |-> 1]
    /\ UNCHANGED <<obj, call, events, stdout, warnings, args, pkgs, web, nupdates>>

\* where main() goes after the g-th if block
After(g) == IF g = LastBlock THEN [at |-> "done", g |-> g] ELSE [at |-> "test", g |-> g + 1]

\* the g-th if: skipped, or entered
Test ==
    /\ pc.at = "test"
    /\ pc' = IF ~Selected(pc.g) THEN After(pc.g)
             ELSE IF pc.g = 1 THEN [at |-> "build", g |-> 1]
             ELSE [at |-> "header", g |-> pc.g]
    /\ pkgs' = <<>>
    /\ UNCHANGED <<obj, call, events, stdout, warnings, args, selected_packages,
                   web, nupdates>>

\* print("\nFirefox:") and the like
Header ==
    /\ pc.at = "header"
    /\ stdout' = Append(stdout, HeaderOf(pc.g))
    /\ events' = events \o Printed(<<HeaderOf(pc.g)>>)
    /\ pc' = [at |-> "build", g |-> pc.g]
    /\ UNCHANGED <<obj, call, warnings, args, selected_packages, pkgs, web, nupdates>>

\* faulty variant of NextMember: the list is built from its end
NextMemberFromEnd(members, built) == members[Len(members) - Len(built)]

\* the element of the list literal evaluated next
NextMember(members, built) == members[Len(built) + 1]

\* the next element of the list literal: a constructor call; an exception
\* it raises is caught nowhere and ends the run
Build ==
    /\ pc.at = "build"
    /\ \E m \in {NextMember(Members(pc.g, args.search), pkgs)} :
       \E r \in {New(m.cls, m.a, Answer(m))} :
          /\ events' = events \o r.ev
          /\ warnings' = warnings \o r.warn
          /\ pkgs' = IF r.exc = "none" THEN Append(pkgs, r.obj) ELSE pkgs
          /\ pc' = IF r.exc # "none" THEN [at |-> "aborted", g |-> pc.g]
                   ELSE IF Len(pkgs) + 1 = Len(Members(pc.g, args.search))
                        THEN [at |-> "report", g |-> pc.g]
                   ELSE pc
    /\ UNCHANGED <<obj, call, stdout, args, selected_packages, web, nupdates>>

\* _pprint(pkgs)
Report ==
    /\ pc.at = "report"
    /\ stdout' = stdout \o Pprint(pkgs)
    /\ events' = events \o Printed(Pprint(pkgs))
    /\ pc' = After(pc.g)
    /\ call' = [NoCall EXCEPT !.op = "_pprint", !.a = pkgs]
    /\ UNCHANGED <<obj, warnings, args, selected_packages, pkgs, web, nupdates>>

NextMain == Select \/ Test \/ Header \/ Build \/ Report

SpecMain == InitMain /\ [][NextMain]_vars

-----------------------------------------------------------------------------
(* _pprint on its own: any list of instances, as main() could hand over.   *)

SamplePackages ==
    {[cls |-> "PackageArchLinux", repository |-> <<"extra">>, name |-> <<"firefox">>,
      distro |-> <<"ArchLinux">>, distro_release |-> <<>>, version |-> <<"115.0">>,
      last_updated |-> <<"2024-01-01T10:00:00Z">>, source_package |-> Unset],
     [cls |-> "PackageArchLinux", repository |-> <<"community-testing">>,
      name |-> <<"vim">>, distro |-> <<"ArchLinux">>, distro_release |-> <<>>,
      version |-> <<>>, last_updated |-> <<>>, source_package |-> Unset],
     [cls |-> "PackageArchLinux", repository |-> <<"core">>, name |-> <<"vim">>,
      distro |-> <<"ArchLinux">>, distro_release |-> <<>>, version |-> None,
      last_updated |-> <<"2024-01-01">>, source_package |-> Unset],
     [cls |-> "PackageDebian", repository |-> <<"unstable">>, name |-> <<"mesa">>,
      distro |-> <<"Debian">>, distro_release |-> <<>>,
      version |-> <<"102.1", "-", "2">>, last_updated |-> <<>>,
      source_package |-> Unset],
     [cls |-> "PackageDebian", repository |-> <<"stable">>, name |-> <<"mesa">>,
      distro |-> <<"Debian">>, distro_release |-> <<>>,
      version |-> <<"1:7.4.7-1+deb12u1">>, last_updated |-> <<>>,
      source_package |-> Unset],
     [cls |-> "PackageFedora", repository |-> <<"stable">>, name |-> <<"mesa-libGL">>,
      distro |-> <<"Fedora">>, distro_release |-> <<"37">>,
      version |-> <<"22.3.7-1.fc37">>, last_updated |-> <<>>,
      source_package |-> <<"mesa">>],
     [cls |-> "PackageFedora", repository |-> <<"stable">>, name |-> <<"vim">>,
      distro |-> <<"Fedora">>, distro_release |-> <<"36">>, version |-> <<>>,
      last_updated |-> <<>>, source_package |-> <<"vim">>],
     [cls |-> "PackageFlatPackFlatHub", repository |-> <<"flathub">>,
      name |-> <<"org.mozilla.firefox">>, distro |-> <<"flatpak">>,
      distro_release |-> <<>>, version |-> <<"115.0">>,
      last_updated |-> <<"2", "0", "2", "4", "-", "3", "-", "4">>,
      source_package |-> Unset],
     [cls |-> "PackageFlatPackFlatHub", repository |-> <<"flathub">>,
      name |-> <<"org.inkscape.Inkscape">>, distro |-> <<"flatpak">>,
      distro_release |-> <<>>, version |-> <<>>,
      last_updated |-> <<"2", "0", "2", "3", "-", "1", "2", "-", "2", "5">>,
      source_package |-> Unset]}

RECURSIVE ListsUpTo(_)
ListsUpTo(n) ==
    IF n = 0 THEN {<<>>}
    ELSE ListsUpTo(n - 1)
         \cup {Append(l, p) : l \in {k \in ListsUpTo(n - 1) : Len(k) = n - 1},
                              p \in SamplePackages}

InitReport ==
    /\ obj = NoObject
    /\ call = NoCall
    /\ events = <<>>
    /\ stdout = <<>>
    /\ warnings = <<>>
    /\ args = NoArgs
    /\ selected_packages = {}
    /\ pkgs \in ListsUpTo(MaxRows)
    /\ pc = [at |-> "report", g |-> LastBlock]
    /\ web = <<>>
    /\ nupdates = 0

SpecReport == InitReport /\ [][Report]_vars

-----------------------------------------------------------------------------
(* Properties of one instance (specification Spec).                        *)

\* the events of the current call with e = kind
EventsOf(kind) == {i \in 1..Len(events) : events[i].e = kind}

\* the fetch of the current call came back to update() with a body
FetchGaveBody == \E i \in EventsOf("returned") : ~events[i].none

\* the fetch of the current call came back to update() with None
FetchGaveNone == \E i \in EventsOf("returned") : events[i].none

\* a name a regex reads as itself and a URL takes as it is
Plain(name) == \A i \in 1..Len(name) : name[i] \notin {"+", "."} /\ ~IsSpace(name[i])

\* block occurs in body at position i
At(body, block, i) ==
    /\ i + Len(block) - 1 <= Len(body)
    /\ SubSeq(body, i, i + Len(block) - 1) = block

\* block occurs in body, and its opening chunk occurs nowhere before it
FirstIn(body, block) ==
    \E i \in 1..Len(body) :
       /\ At(body, block, i)
       /\ \A j \in 1..(i - 1) : body[j] # block[1]

\* the JSON document of the current call is an object, and which keys it has
ArchKeys == DOMAIN JsonLoads(call.resp.body).val.v

ArchIsObject ==
    JsonLoads(call.resp.body).ok /\ JsonLoads(call.resp.body).val.t = "object"

\* the version pattern of the current call's class finds nothing in the body
VersionPatternMisses ==
    CASE call.cls = "PackageDebian" ->
           ~Search(DebianPattern(call.a), call.resp.body).ok
      [] call.cls = "PackageFedora" ->
           ~Search(FedoraPattern(call.a), call.resp.body).ok
      [] OTHER -> ~Search(FlatHubVersionPattern, call.resp.body).ok

\* C1: when the fetched body lacks the expected data (ArchLinux: the JSON
\* object has no pkgver or no last_update key; the others: the pattern does
\* not match), the constructor returns without raising and the field the
\* data was for is still empty.
C1_MissingDataLeavesFieldEmpty ==
    (call.op = "construct" /\ FetchGaveBody /\ Plain(call.a.name))
    => /\ (call.cls = "PackageArchLinux" /\ ArchIsObject /\ "pkgver" \notin ArchKeys)
            => (call.exc = "none" /\ obj.version = <<>>)
       /\ (call.cls = "PackageArchLinux" /\ ArchIsObject
              /\ "last_update" \notin ArchKeys)
            => (call.exc = "none" /\ obj.last_updated = <<>>)
       /\ (call.cls # "PackageArchLinux" /\ VersionPatternMisses)
            => (call.exc = "none" /\ obj.version = <<>>)
       /\ (call.cls = "PackageFlatPackFlatHub"
              /\ ~Search(FlatHubDatePattern, call.resp.body).ok)
            => (call.exc = "none" /\ obj.last_updated = <<>>)

\* C2: when the fetch of a constructor's update() yields None, the
\* constructor returns without raising and version and last_updated are
\* both the empty string.
C2_NoContentLeavesFieldsEmpty ==
    (call.op = "construct" /\ FetchGaveNone)
    => (call.exc = "none" /\ obj # NoObject
        /\ obj.version = <<>> /\ obj.last_updated = <<>>)

C2_Witness ==
    /\ call.op = "construct" /\ FetchGaveNone
    /\ call.cls = "PackageDebian" /\ call.resp.kind = "HTTPError"
    /\ obj.version = <<>>

\* C3: whatever the outcome of the GET, _url_content returns to its caller
\* without raising: the body on success, None otherwise; it logs a warning
\* exactly when the request could not be sent, and nothing on an error status.
C3_FetcherNeverRaises ==
    (call.op # "none" /\ EventsOf("urlopen") # {})
    => /\ EventsOf("raised") = {}
       /\ call.resp.kind = "ok" => FetchGaveBody
       /\ call.resp.kind # "ok" => FetchGaveNone
       /\ (call.warn # <<>>) <=> (call.resp.kind = "URLError")

\* what update() extracts from resp on an instance whose two fields are empty
Extracted(o, resp) ==
    Update([o EXCEPT !.version = <<>>, !.last_updated = <<>>], resp).obj

\* C4: after the constructor's update() and any later ones, version and
\* last_updated are each empty or the value extracted from the most recent
\* fetch; nothing of an earlier fetch is kept.
C4_OnlyMostRecentFetch ==
    (call.op # "none" /\ obj # NoObject)
    => /\ obj.version \in {<<>>, Extracted(obj, call.resp).version}
       /\ obj.last_updated \in {<<>>, Extracted(obj, call.resp).last_updated}

\* the attribute values a constructor call with arguments a gives the instance
Identity(cls, a) ==
    [cls |-> cls,
     repository |-> IF cls = "PackageFlatPackFlatHub" THEN <<"flathub">>
                    ELSE a.repository,
     name |-> a.name,
     distro |-> CASE cls = "PackageArchLinux" -> <<"ArchLinux">>
                  [] cls = "PackageDebian" -> <<"Debian">>
                  [] cls = "PackageFedora" -> <<"Fedora">>
                  [] OTHER -> <<"flatpak">>,
     distro_release |-> IF cls = "PackageFedora" THEN a.distro_release ELSE <<>>,
     source_package |-> IF cls # "PackageFedora" THEN Unset
                        ELSE IF a.source_package = None THEN a.name
                        ELSE a.source_package]

SameIdentity(o, id) ==
    /\ o.cls = id.cls /\ o.repository = id.repository /\ o.name = id.name
    /\ o.distro = id.distro /\ o.distro_release = id.distro_release
    /\ o.source_package = id.source_package

\* C6: a constructor call makes exactly one fetch (one urlopen, no second
\* attempt); the fetch is made by the update() that ends the constructor,
\* which finds every identifying attribute assigned and version and
\* last_updated empty, and no identifying attribute changes after it.
C6_OneFetchAfterFieldsSet ==
    call.op = "construct"
    => /\ Cardinality(EventsOf("urlopen")) = 1
       /\ Cardinality(EventsOf("update")) = 1
       /\ events[1].e = "update" /\ events[2].e = "urlopen"
       /\ SameIdentity(events[1].self, Identity(call.cls, call.a))
       /\ events[1].self.version = <<>> /\ events[1].self.last_updated = <<>>
       /\ call.exc = "none" => SameIdentity(obj, Identity(call.cls, call.a))

C6_Witness ==
    /\ call.op = "construct" /\ call.cls = "PackageFedora" /\ call.exc = "none"
    /\ call.a.source_package = None /\ obj.source_package = call.a.name
    /\ Len(events) = 3

\* surrounding whitespace of a JSON string value
Pads == {<<>>, <<" ">>, <<NL>>, <<"\t">>}

ArchDates == {<<"2024-01-01">>, <<"2024-01-01T10:00:00Z">>}

\* yyyy-m-d of a month, a day and a year
IsoDate(d) == Str(d[3]) \o "-" \o Str(d[1]) \o "-" \o Str(d[2])

\* what C7 says of ArchLinux, Fedora and FlatHub
C7_OtherClasses ==
    /\ \A v \in Versions, d \in ArchDates, l \in Pads, r \in Pads :
          (call.cls = "PackageArchLinux"
             /\ call.resp.body = ArchJson(v, l \o d \o r))
          => (call.exc = "none" /\ obj.version = v /\ obj.last_updated = d)
    /\ \A v \in Versions :
          (call.cls = "PackageFedora"
             /\ FirstIn(call.resp.body, FedoraAnchor(call.a.distro_release, v)))
          => (call.exc = "none" /\ obj.version = v /\ obj.last_updated = <<>>)
    /\ \A v \in Versions :
          (call.cls = "PackageFlatPackFlatHub"
             /\ FirstIn(call.resp.body, FlatHubVersionBlock(v)))
          => (call.exc = "none" /\ obj.version = v)
    /\ \A d \in Dates :
          (call.cls = "PackageFlatPackFlatHub"
             /\ FirstIn(call.resp.body, FlatHubDateBlock(d[1], d[2], d[3])))
          => (call.exc = "none" /\ Str(obj.last_updated) = IsoDate(d))
    /\ (call.cls = "PackageFlatPackFlatHub"
          /\ FirstIn(call.resp.body,
                     FlatHubDateBlock(<<"3">>, <<"4">>, <<"2", "0", "2", "4">>)))
       => Str(obj.last_updated) = "2024-3-4"

\* the calls C7 is about: a constructor whose fetch brought a body of valid
\* UTF-8
C7_Case == call.op = "construct" /\ FetchGaveBody /\ DecodeOk(call.resp.body)

\* C7: from a body with a well-formed match every class extracts the
\* expected values: ArchLinux sets version to pkgver and last_updated to
\* last_update stripped; Debian takes VERSION from the heading
\* <h1>Source Package: {name} (VERSION)</h1> (read here with the line break
\* before </h1> that update() looks for); Fedora takes the text of the
\* anchor of its release; FlatHub takes the version of its h3 block and
\* turns the m/d/yyyy title of its date div into yyyy-m-d; Debian and Fedora
\* leave last_updated empty.
C7_WellFormedExtraction ==
    C7_Case
    => /\ C7_OtherClasses
       /\ \A v \in Versions :
             (call.cls = "PackageDebian"
                /\ FirstIn(call.resp.body, DebianHeading(call.a.name, v)))
             => (call.exc = "none" /\ obj.version = v /\ obj.last_updated = <<>>)

-----------------------------------------------------------------------------
(* Properties of _pprint (specification SpecReport).                       *)

HeaderRow == "distro         repository     version        last updated   "

Rule == "------------------------------------------------------------"

\* s left-justified in a column of 15: s, then blanks up to 15 characters
Cell(s) ==
    CHOOSE c \in {s \o Spaces(k) : k \in 0..15} :
        Len(c) = IF Len(s) > 15 THEN Len(s) ELSE 15

DataRow(p) ==
    Cell(PyStr(p.distro) \o " " \o PyStr(p.distro_release))
        \o Cell(PyStr(p.repository)) \o Cell(PyStr(p.version))
        \o Cell(PyStr(p.last_updated))

\* C8: _pprint of n instances prints 1 + 2n lines: the header row with the
\* four titles, then for each instance in input order a line of dashes and
\* directly after it the instance's row of four cells (distro and
\* distro_release joined by a blank, repository, version, last_updated),
\* each left-justified in a column of 15 characters; the instances are
\* left as they were.
C8_ReportLayout ==
    call.op = "_pprint"
    => /\ pkgs = call.a
       /\ Len(stdout) = 1 + 2 * Len(call.a)
       /\ stdout[1] = HeaderRow
       /\ \A i \in 1..Len(call.a) :
             /\ stdout[2 * i] = Rule
             /\ stdout[2 * i + 1] = DataRow(call.a[i])

C8_Witness ==
    /\ call.op = "_pprint" /\ Len(pkgs) = 2 /\ Len(stdout) = 5
    /\ pkgs[1].repository = <<"community-testing">>
    /\ pkgs[2].version = <<"115.0">>

-----------------------------------------------------------------------------
(* Properties of a run of main() (specification SpecMain).                 *)

\* the software selected on the command line
Chosen(s) == args.all \/ s \in args.packages

Label(s) ==
    CASE s = "firefox" -> "\nFirefox:"
      [] s = "thunderbird" -> "\nThunderbird:"
      [] s = "libreoffice" -> "\nLibreOffice:"
      [] s = "inkscape" -> "\nInkscape:"
      [] OTHER -> "\nMesa:"

Labels == {Label(s) : s \in SOFTWARE}

Ended == pc.at \in {"done", "aborted"}

LinesEqual(text) == {i \in 1..Len(stdout) : stdout[i] = text}

\* the groups of the run, in the order of main(): the search, then the
\* software of the fixed list
Due(g) == IF g = 1 THEN args.search # None ELSE Chosen(SoftwareOf(g))

RECURSIVE RowsDue(_)
RowsDue(g) ==
    IF g > LastBlock THEN 0
    ELSE (IF Due(g) THEN Len(Members(g, args.search)) ELSE 0) + RowsDue(g + 1)

\* C5: whatever the lookups of a run give (fetch failure, missing JSON
\* key, no match), the run does not abort, and a run that has ended has
\* printed the table of the search and of every selected software, with
\* one row for each configured source.
C5_RunNeverAborts ==
    /\ pc.at # "aborted"
    /\ pc.at = "done"
       => /\ Cardinality(LinesEqual(Rule)) = RowsDue(1)
          /\ Cardinality(LinesEqual(HeaderRow))
               = Cardinality({g \in 1..LastBlock : Due(g)})

\* C9: a run that has ended has printed, for each software of the fixed
\* list, its label line exactly once if the software was selected (all
\* five with -a) and not at all otherwise, and every label line is directly
\* followed by the header row of one table.
C9_OneSectionPerSelection ==
    Ended
    => \A s \in SOFTWARE :
          /\ Cardinality(LinesEqual(Label(s))) = IF Chosen(s) THEN 1 ELSE 0
          /\ \A i \in LinesEqual(Label(s)) :
                i < Len(stdout) /\ stdout[i + 1] = HeaderRow

\* what a run shows of its order: label lines, constructor calls, table lines
Mark(ev) ==
    CASE ev.e = "print" ->
           IF ev.text \in Labels THEN <<"label", ev.text>> ELSE <<"table">>
      [] ev.e = "update" ->
           <<"construct", ev.self.cls, ev.self.repository, ev.self.name,
             ev.self.distro_release>>
      [] OTHER -> <<>>

RECURSIVE Marks(_, _)
Marks(evs, i) ==
    IF i > Len(evs) THEN <<>>
    ELSE (IF Mark(evs[i]) = <<>> THEN <<>> ELSE <<Mark(evs[i])>>)
         \o Marks(evs, i + 1)

MarksOfList(members) ==
    [i \in 1..Len(members) |->
        <<"construct", members[i].cls, members[i].a.repository,
          members[i].a.name, members[i].a.distro_release>>]

\* the order the claim asks for: for each group of the run, search first,
\* its label line (the search has none), its list from first to last, and
\* then the lines of its table
RECURSIVE MarksDue(_)
MarksDue(g) ==
    IF g > LastBlock THEN <<>>
    ELSE (IF ~Due(g) THEN <<>>
          ELSE (IF g = 1 THEN <<>> ELSE <<<<"label", Label(SoftwareOf(g))>>>>)
               \o MarksOfList(Members(g, args.search))
               \o [i \in 1..(1 + 2 * Len(Members(g, args.search))) |-> <<"table">>])
         \o MarksDue(g + 1)

IsPrefix(s, t) == Len(s) <= Len(t) /\ \A i \in 1..Len(s) : s[i] = t[i]

\* a fetch that has begun ends before anything else happens, and a
\* constructor call begins only when no fetch is in progress
OneFetchAtATime ==
    \A i \in 1..Len(events) :
       /\ events[i].e = "urlopen"
          => i < Len(events) /\ events[i + 1].e \in {"returned", "raised"}
                             /\ events[i + 1].url = events[i].url
       /\ events[i].e = "update"
          => /\ i < Len(events) /\ events[i + 1].e = "urlopen"
             /\ i > 1 => events[i - 1].e \in {"returned", "raised", "print"}

\* C10: the fetches of a run are sequential and ordered: at most one is in
\* progress at a time and it ends before the next constructor call begins;
\* the groups are processed search first, then in the order of main(); in
\* a group the label line comes before the first fetch, the packages are
\* fetched in the order of the group's list, and the table lines come after
\* the last fetch has ended.
C10_SequentialOrderedFetches ==
    /\ OneFetchAtATime
    /\ \E due \in {MarksDue(1)} : \E seen \in {Marks(events, 1)} :
          /\ IsPrefix(seen, due)
          /\ pc.at = "done" => seen = due

C10_Witness ==
    /\ pc.at = "done" /\ args.search # None
    /\ selected_packages = {"firefox", "mesa"}
    /\ Cardinality(EventsOf("urlopen")) = 23

=============================================================================
